---- MODULE Spec2Model ----
(***************************************************************************)
(* Account_Validation-PHC: the bank-account verification form.  The model  *)
(* covers the CSV row tokenizer, the bulk-upload handler (parse, validate, *)
(* sequential verification loop), the single-record handler, the modals    *)
(* and the module-level bank-list cache of the service layer.              *)
(*                                                                         *)
(* A string is a sequence of one-character strings; positions are 1-based  *)
(* where the TypeScript is 0-based.                                        *)
(***************************************************************************)
EXTENDS Naturals, Sequences, FiniteSets

\* ------------------------------------------------------------ bounds

\* Data lines per uploaded text (the header line is extra).
MaxRows == 3
\* Handler runs (file selections and form submissions) per run of the form.
MaxTasks == 2
\* Status polls (mount, interval ticks, refresh clicks) per run.
MaxPolls == 2

\* The longest line, in characters, that robustParseCsvRow is called with
\* (the lines quoted as examples apart).
MaxLen == 4

\* ------------------------------------------------------------ strings

\* String.prototype.trim: the white space it strips.
WhiteSpace == {" ", "\t", "\r", "\n"}

\* String.prototype.trim: s from its first to its last character that is no
\* white space.
Trim(s) ==
    LET kept == {i \in DOMAIN s : s[i] \notin WhiteSpace}
    IN  IF kept = {} THEN <<>>
        ELSE SubSeq(s, CHOOSE i \in kept : \A j \in kept : i <= j,
                       CHOOSE i \in kept : \A j \in kept : j <= i)

UpperCase ==
    <<"A","B","C","D","E","F","G","H","I","J","K","L","M",
      "N","O","P","Q","R","S","T","U","V","W","X","Y","Z">>

LowerCase ==
    <<"a","b","c","d","e","f","g","h","i","j","k","l","m",
      "n","o","p","q","r","s","t","u","v","w","x","y","z">>

\* String.prototype.toLowerCase
toLowerCase(s) ==
    [i \in 1..Len(s) |->
        IF \E k \in 1..Len(UpperCase) : UpperCase[k] = s[i]
        THEN LowerCase[CHOOSE k \in 1..Len(UpperCase) : UpperCase[k] = s[i]]
        ELSE s[i]]

\* The k-th smallest element of a set of positions.
Nth(positions, k) ==
    CHOOSE i \in positions : Cardinality({j \in positions : j <= i}) = k

\* String.prototype.split with a one-character separator: the pieces between
\* consecutive separators.
split(s, sep) ==
    LET at == {i \in DOMAIN s : s[i] = sep}
        from(k) == IF k = 1 THEN 1 ELSE Nth(at, k - 1) + 1
        to(k) == IF k = Cardinality(at) + 1 THEN Len(s) ELSE Nth(at, k) - 1
    IN  [k \in 1..(Cardinality(at) + 1) |-> SubSeq(s, from(k), to(k))]

\* text.split(/\r?\n/): a carriage return right before the line feed belongs
\* to the separator.
SplitLines(s) ==
    LET pieces == split(s, "\n")
    IN  [k \in DOMAIN pieces |->
            IF k < Len(pieces) /\ pieces[k] # <<>> /\ pieces[k][Len(pieces[k])] = "\r"
            THEN SubSeq(pieces[k], 1, Len(pieces[k]) - 1)
            ELSE pieces[k]]

\* Array.prototype.join with a one-character separator
RECURSIVE join(_, _)
join(parts, sep) ==
    IF parts = <<>> THEN <<>>
    ELSE IF Len(parts) = 1 THEN parts[1]
    ELSE parts[1] \o <<sep>> \o join(Tail(parts), sep)

\* ------------------------------------------------------------ tokenizer

\* ParseStep that takes every comma for a separator.
ParseStep_SplitsInQuotes(row, st) ==
    LET i == st.i
    IN  IF row[i] = "\""
        THEN IF st.inQuotes /\ i + 1 <= Len(row) /\ row[i + 1] = "\""
             THEN [st EXCEPT !.currentVal = Append(@, "\""), !.i = i + 2]
             ELSE [st EXCEPT !.inQuotes = ~@, !.i = i + 1]
        ELSE IF row[i] = ","
        THEN [st EXCEPT !.values = Append(@, Trim(st.currentVal)),
                        !.currentVal = <<>>, !.i = i + 1]
        ELSE [st EXCEPT !.currentVal = Append(@, row[i]), !.i = i + 1]

\* ParseStep in which every quote character toggles inQuotes.
ParseStep_NoEscape(row, st) ==
    LET i == st.i
    IN  IF row[i] = "\""
        THEN [st EXCEPT !.inQuotes = ~@, !.i = i + 1]
        ELSE IF row[i] = "," /\ ~st.inQuotes
        THEN [st EXCEPT !.values = Append(@, Trim(st.currentVal)),
                        !.currentVal = <<>>, !.i = i + 1]
        ELSE [st EXCEPT !.currentVal = Append(@, row[i]), !.i = i + 1]

\* One iteration of the for loop of robustParseCsvRow: the loop state after
\* the character at i has been handled (i is 1-based; st.i is the next index).
ParseStep(row, st) ==
    LET i == st.i
    IN  IF row[i] = "\""
        THEN IF st.inQuotes /\ i + 1 <= Len(row) /\ row[i + 1] = "\""
             THEN [st EXCEPT !.currentVal = Append(@, "\""), !.i = i + 2]
             ELSE [st EXCEPT !.inQuotes = ~@, !.i = i + 1]
        ELSE IF row[i] = "," /\ ~st.inQuotes
        THEN [st EXCEPT !.values = Append(@, Trim(st.currentVal)),
                        !.currentVal = <<>>, !.i = i + 1]
        ELSE [st EXCEPT !.currentVal = Append(@, row[i]), !.i = i + 1]

\* The loop test and one iteration.
ParseNext(row, st) == IF st.i > Len(row) THEN st ELSE ParseStep(row, st)

\* The for loop of robustParseCsvRow from loop state st on (four iterations
\* per unfolding, which keeps the evaluation of long rows shallow).
RECURSIVE ParseLoop(_, _)
ParseLoop(row, st) ==
    IF st.i > Len(row) THEN st
    ELSE ParseLoop(row,
             ParseNext(row, ParseNext(row, ParseNext(row, ParseStep(row, st)))))

\* robustParseCsvRow that gives up the cell of a quoted span left open.
robustParseCsvRow_DropsOpenCell(row) ==
    LET st == ParseLoop(row, [i |-> 1, currentVal |-> <<>>, inQuotes |-> FALSE,
                              values |-> <<>>])
    IN  IF st.inQuotes THEN st.values ELSE Append(st.values, Trim(st.currentVal))


\* robustParseCsvRow that does not trim the last cell.
robustParseCsvRow_LastUntrimmed(row) ==
    LET st == ParseLoop(row, [i |-> 1, currentVal |-> <<>>, inQuotes |-> FALSE,
                              values |-> <<>>])
    IN  Append(st.values, st.currentVal)


robustParseCsvRow(row) ==
    LET st == ParseLoop(row, [i |-> 1, currentVal |-> <<>>, inQuotes |-> FALSE,
                              values |-> <<>>])
    IN  Append(st.values, Trim(st.currentVal))

\* ------------------------------------------------------------ records

\* null / undefined
Null == [null |-> TRUE]

S_beneficiaryName == <<"b","e","n","e","f","i","c","i","a","r","y","N","a","m","e">>
S_bankName == <<"b","a","n","k","N","a","m","e">>
S_accountNumber == <<"a","c","c","o","u","n","t","N","u","m","b","e","r">>
S_bvn == <<"b","v","n">>

\* const requiredHeaders = ['beneficiaryName', 'bankName', 'accountNumber', 'bvn']
requiredHeaders == <<S_beneficiaryName, S_bankName, S_accountNumber, S_bvn>>

\* Array.prototype.includes
includes(arr, x) == \E i \in DOMAIN arr : arr[i] = x

\* A message is kept as its kind (the fixed text of the template) and the
\* values the template interpolates.
CouldNotRead == [kind |-> "Could not read the file."]
EmptyCsv == [kind |-> "CSV file is empty or contains only a header."]
FailedToRead == [kind |-> "Failed to read the file."]
Unavailable ==
    [kind |-> "The verification service is currently unavailable. Please try again later."]

\* `Invalid CSV header. Missing required columns: ${missingHeaders.join(', ')}.`
InvalidHeader(missing) ==
    [kind |-> "Invalid CSV header. Missing required columns", missing |-> missing]

\* `Could not parse the CSV file due to formatting issues:\n\n${parsingErrors.join('\n')}`
CouldNotParse(errors) ==
    [kind |-> "Could not parse the CSV file due to formatting issues", errors |-> errors]

\* `Duplicate entries found in the file. ... Duplicates: ${duplicateMessages}.`
DuplicatesFound(entries) ==
    [kind |-> "Duplicate entries found in the file", entries |-> entries]

\* { success: false, message, data }
Failure(message, data) == [success |-> FALSE, message |-> message, data |-> data]

\* ------------------------------------------------------------ table parser

\* text.split(/\r?\n/).filter(line => line.trim() !== '')
NonBlankLines(text) == SelectSeq(SplitLines(text), LAMBDA line : Trim(line) # <<>>)

\* missingHeaders that stops at the first missing name.
missingHeaders_FirstOnly(header) ==
    LET all == SelectSeq(requiredHeaders, LAMBDA rh : ~includes(header, rh))
    IN  IF all = <<>> THEN <<>> ELSE <<all[1]>>

\* requiredHeaders.filter(rh => !header.includes(rh))
missingHeaders(header) == SelectSeq(requiredHeaders, LAMBDA rh : ~includes(header, rh))

\* header.reduce((acc, col, index) => { acc[col.trim()] = index; ... }, {}):
\* a later column of the same name overwrites an earlier one.
headerMap(header) ==
    [col \in {Trim(header[i]) : i \in DOMAIN header} |->
        CHOOSE i \in DOMAIN header :
            /\ Trim(header[i]) = col
            /\ \A j \in DOMAIN header : Trim(header[j]) = col => j <= i]

\* data[headerMap[name]] ?? ''
CellOr(data, map, name) ==
    IF name \in DOMAIN map /\ map[name] \in DOMAIN data THEN data[map[name]] ELSE <<>>

\* AccountOf that reads the bank name and the account number from each other's column.
AccountOf_Swapped(data, map) ==
    [beneficiaryName |-> CellOr(data, map, S_beneficiaryName),
     bankName |-> CellOr(data, map, S_accountNumber),
     accountNumber |-> CellOr(data, map, S_bankName),
     bvn |-> CellOr(data, map, S_bvn)]

\* const account: AccountDetails = { ... }
AccountOf(data, map) ==
    [beneficiaryName |-> CellOr(data, map, S_beneficiaryName),
     bankName |-> CellOr(data, map, S_bankName),
     accountNumber |-> CellOr(data, map, S_accountNumber),
     bvn |-> CellOr(data, map, S_bvn)]

\* NotEmptyRow that keeps every row.
NotEmptyRow_Always(account) == TRUE

\* Object.values(account).some(val => val.trim() !== '')
NotEmptyRow(account) ==
    \/ Trim(account.beneficiaryName) # <<>>
    \/ Trim(account.bankName) # <<>>
    \/ Trim(account.accountNumber) # <<>>
    \/ Trim(account.bvn) # <<>>

\* MismatchError that counts the data rows from 1.
MismatchError_FromOne(index, expected, found) ==
    [row |-> index + 1, expected |-> expected, found |-> found]

\* `Row ${index + 2}: Mismatched column count. Expected ${header.length}, but
\* found ${data.length}.`  (index is forEach's 0-based index into lines.slice(1))
MismatchError(index, expected, found) ==
    [row |-> index + 2, expected |-> expected, found |-> found]

\* PushAccount that adds at the front.
PushAccount_Front(accounts, account) == <<account>> \o accounts

\* accountsToVerify.push(account)
PushAccount(accounts, account) == Append(accounts, account)

\* The body of lines.slice(1).forEach((line, index) => ...), applied to the
\* data lines from 0-based index on; acc holds accountsToVerify and
\* parsingErrors.
RECURSIVE ForEachLine(_, _, _, _)
ForEachLine(rest, header, index, acc) ==
    IF index >= Len(rest) THEN acc
    ELSE LET data == robustParseCsvRow(rest[index + 1])
             account == AccountOf(data, headerMap(header))
         IN  IF Len(data) # Len(header)
             THEN ForEachLine(rest, header, index + 1,
                      [acc EXCEPT !.parsingErrors =
                          Append(@, MismatchError(index, Len(header), Len(data)))])
             ELSE IF NotEmptyRow(account)
             THEN ForEachLine(rest, header, index + 1,
                      [acc EXCEPT !.accountsToVerify = PushAccount(@, account)])
             ELSE ForEachLine(rest, header, index + 1, acc)

ParseRows(lines, header) ==
    ForEachLine(Tail(lines), header, 0,
                [accountsToVerify |-> <<>>, parsingErrors |-> <<>>])

\* DuplicateKey without .toLowerCase().
DuplicateKey_CaseKept(account) ==
    Trim(account.accountNumber) \o <<"-">> \o Trim(account.bankName)

\* `${account.accountNumber.trim()}-${account.bankName.trim()}`.toLowerCase()
DuplicateKey(account) ==
    toLowerCase(Trim(account.accountNumber) \o <<"-">> \o Trim(account.bankName))

\* if (key !== '-')
CountedKey(key) == key # <<"-">>

\* The keys of the Map `seen`, in insertion order.
RECURSIVE SeenKeys(_, _)
SeenKeys(accounts, keys) ==
    IF accounts = <<>> THEN keys
    ELSE LET key == DuplicateKey(Head(accounts))
         IN  SeenKeys(Tail(accounts),
                      IF CountedKey(key) /\ ~includes(keys, key)
                      THEN Append(keys, key) ELSE keys)

\* seen.get(key): how many accounts were counted under key
SeenCount(accounts, key) ==
    Cardinality({i \in DOMAIN accounts :
        CountedKey(DuplicateKey(accounts[i])) /\ DuplicateKey(accounts[i]) = key})

\* Array.from(seen.entries()).filter(([, count]) => count > 1).map(([key]) => key)
duplicates(accounts) ==
    SelectSeq(SeenKeys(accounts, <<>>), LAMBDA key : SeenCount(accounts, key) > 1)

\* const [acc, bank] = d.split('-'); `Account ${acc} at ${bank}`
DuplicateEntry(d) ==
    LET parts == split(d, "-")
    IN  [acc |-> parts[1], bank |-> parts[2]]

duplicateMessages(dups) == [i \in DOMAIN dups |-> DuplicateEntry(dups[i])]

\* What reader.onload decides before the verification loop: either a failure
\* shown in the result modal (rejected), or the accounts to verify.
Rejected(message) ==
    [accepted |-> FALSE, result |-> Failure(message, Null), accounts |-> <<>>]

Accepted(accounts) == [accepted |-> TRUE, result |-> Null, accounts |-> accounts]

\* CheckRows without the abort of lines 148-153.
CheckRows_NoAbort(parsed) ==
    IF Len(duplicates(parsed.accountsToVerify)) > 0
    THEN Rejected(DuplicatesFound(duplicateMessages(duplicates(parsed.accountsToVerify))))
    ELSE Accepted(parsed.accountsToVerify)

\* Lines 148-177: the structural-error abort, then the duplicate check.
CheckRows(parsed) ==
    IF Len(parsed.parsingErrors) > 0
    THEN Rejected(CouldNotParse(parsed.parsingErrors))
    ELSE IF Len(duplicates(parsed.accountsToVerify)) > 0
    THEN Rejected(DuplicatesFound(duplicateMessages(duplicates(parsed.accountsToVerify))))
    ELSE Accepted(parsed.accountsToVerify)

\* Lines 108-146: the header check, then the row loop.
CheckHeader(lines) ==
    LET header == robustParseCsvRow(lines[1])
    IN  IF Len(missingHeaders(header)) > 0
        THEN Rejected(InvalidHeader(missingHeaders(header)))
        ELSE CheckRows(ParseRows(lines, header))

\* Lines 94-177 of reader.onload.
ParseUpload(text) ==
    IF text = <<>> THEN Rejected(CouldNotRead)
    ELSE IF Len(NonBlankLines(text)) <= 1 THEN Rejected(EmptyCsv)
    ELSE CheckHeader(NonBlankLines(text))

\* ------------------------------------------------------------ service

VerifiedMsg == [kind |-> "Account details verified successfully."]
InvalidAccountMsg == [kind |-> "Invalid account number."]

\* What ai.models.generateContent can do for one verification request: fail
\* (ok is FALSE), or answer with a text that JSON.parse turns into a body,
\* well typed or not. The answer is the remote model's choice.
VerifyResponses(details) ==
    { [ok |-> FALSE, typed |-> FALSE,
       body |-> [success |-> FALSE, message |-> InvalidAccountMsg, data |-> Null]],
      [ok |-> TRUE, typed |-> FALSE,
       body |-> [success |-> TRUE, message |-> VerifiedMsg, data |-> Null]],
      [ok |-> TRUE, typed |-> TRUE,
       body |-> [success |-> TRUE, message |-> VerifiedMsg, data |-> details]],
      [ok |-> TRUE, typed |-> TRUE,
       body |-> [success |-> TRUE, message |-> VerifiedMsg, data |-> Null]],
      [ok |-> TRUE, typed |-> TRUE,
       body |-> [success |-> FALSE, message |-> InvalidAccountMsg, data |-> details]] }

\* The try/catch of verifyAccountDetails applied to the response: the promise
\* resolves with the body, or rejects with the fixed Error. typed: typeof
\* result.success is 'boolean' and typeof result.message is 'string'.
verifyAccountDetails(response) ==
    IF response.ok /\ response.typed
    THEN [resolved |-> TRUE, value |-> response.body]
    ELSE [resolved |-> FALSE, error |-> Unavailable]

\* ------------------------------------------------------------ bank list

\* The order String.prototype.localeCompare gives the characters that occur
\* in bank names: space and punctuation first, then digits, then letters,
\* a letter's two cases together.
Collation ==
    <<" ", "-", "(", ")", "0", "1", "2", "3", "4", "5", "6", "7", "8", "9">> \o LowerCase

CharRank(c) ==
    LET l == toLowerCase(<<c>>)[1]
    IN  IF \E k \in DOMAIN Collation : Collation[k] = l
        THEN CHOOSE k \in DOMAIN Collation : Collation[k] = l
        ELSE 0

\* a.localeCompare(b) < 0
RECURSIVE LocaleBefore(_, _)
LocaleBefore(a, b) ==
    IF b = <<>> THEN FALSE
    ELSE IF a = <<>> THEN TRUE
    ELSE IF CharRank(Head(a)) # CharRank(Head(b)) THEN CharRank(Head(a)) < CharRank(Head(b))
    ELSE LocaleBefore(Tail(a), Tail(b))

\* One step of a stable insertion: item goes after every element not after it.
RECURSIVE InsertByName(_, _)
InsertByName(sorted, item) ==
    IF sorted = <<>> THEN <<item>>
    ELSE IF LocaleBefore(item.name, Head(sorted).name) THEN <<item>> \o sorted
    ELSE <<Head(sorted)>> \o InsertByName(Tail(sorted), item)

\* list.sort((a, b) => a.name.localeCompare(b.name))
RECURSIVE SortByName(_)
SortByName(list) ==
    IF list = <<>> THEN <<>>
    ELSE InsertByName(SortByName(SubSeq(list, 1, Len(list) - 1)), list[Len(list)])

\* const fallbackBanks: BankData[] = [ ... ]
fallbackBanks ==
    <<[name |-> <<"A","c","c","e","s","s"," ","B","a","n","k">>,
       sortCode |-> <<"0","4","4","1","5","0","1","4","9">>],
      [name |-> <<"C","i","t","i","b","a","n","k">>,
       sortCode |-> <<"0","2","3","1","5","0","0","0","5">>],
      [name |-> <<"E","c","o","b","a","n","k"," ","N","i","g","e","r","i","a">>,
       sortCode |-> <<"0","5","0","1","5","0","3","1","1">>],
      [name |-> <<"F","i","d","e","l","i","t","y"," ","B","a","n","k">>,
       sortCode |-> <<"0","7","0","1","5","0","4"," ","F","i","d","e","l","i","t","y">>],
      [name |-> <<"F","i","r","s","t"," ","B","a","n","k"," ","o","f"," ","N","i","g","e","r","i","a">>,
       sortCode |-> <<"0","1","1","1","5","1","0","0","3">>],
      [name |-> <<"F","i","r","s","t"," ","C","i","t","y"," ","M","o","n","u","m","e","n","t"," ","B","a","n","k"," ","(","F","C","M","B",")">>,
       sortCode |-> <<"2","1","4","1","5","0","0","1","8">>],
      [name |-> <<"G","u","a","r","a","n","t","y"," ","T","r","u","s","t"," ","H","o","l","d","i","n","g"," ","C","o","m","p","a","n","y"," ","(","G","T","C","O",")">>,
       sortCode |-> <<"0","5","8","1","5","2","0","5","2">>],
      [name |-> <<"J","a","i","z"," ","B","a","n","k">>,
       sortCode |-> <<"3","0","1","0","8","0","0","2","0">>],
      [name |-> <<"K","e","y","s","t","o","n","e"," ","B","a","n","k">>,
       sortCode |-> <<"0","8","2","1","5","0","0","1","7">>],
      [name |-> <<"K","u","d","a"," ","B","a","n","k">>,
       sortCode |-> <<"5","0","2","1","1","0","0","0","4">>],
      [name |-> <<"O","p","a","y">>,
       sortCode |-> <<"9","9","9","9","9","2">>],
      [name |-> <<"P","a","l","m","p","a","y">>,
       sortCode |-> <<"9","9","9","9","9","1">>],
      [name |-> <<"P","o","l","a","r","i","s"," ","B","a","n","k">>,
       sortCode |-> <<"0","7","6","1","5","1","0","0","6">>],
      [name |-> <<"P","r","o","v","i","d","u","s"," ","B","a","n","k">>,
       sortCode |-> <<"1","0","1","1","5","0","0","1","3">>],
      [name |-> <<"S","t","a","n","b","i","c"," ","I","B","T","C"," ","B","a","n","k">>,
       sortCode |-> <<"2","2","1","1","5","0","0","1","8">>],
      [name |-> <<"S","t","a","n","d","a","r","d"," ","C","h","a","r","t","e","r","e","d"," ","B","a","n","k">>,
       sortCode |-> <<"0","6","8","1","5","0","0","1","5">>],
      [name |-> <<"S","t","e","r","l","i","n","g"," ","B","a","n","k">>,
       sortCode |-> <<"2","3","2","1","5","0","0","1","6">>],
      [name |-> <<"S","u","n","T","r","u","s","t"," ","B","a","n","k">>,
       sortCode |-> <<"1","0","0","1","5","0","0","1","7">>],
      [name |-> <<"T","A","J","B","a","n","k">>,
       sortCode |-> <<"3","0","2","0","8","0","0","1","5">>],
      [name |-> <<"U","n","i","o","n"," ","B","a","n","k"," ","o","f"," ","N","i","g","e","r","i","a">>,
       sortCode |-> <<"0","3","2","1","5","0","0","0","2">>],
      [name |-> <<"U","n","i","t","e","d"," ","B","a","n","k"," ","f","o","r"," ","A","f","r","i","c","a"," ","(","U","B","A",")">>,
       sortCode |-> <<"0","3","3","1","5","3","5","9","2">>],
      [name |-> <<"U","n","i","t","y"," ","B","a","n","k">>,
       sortCode |-> <<"2","1","5","1","5","0","0","1","5">>],
      [name |-> <<"W","e","m","a"," ","B","a","n","k">>,
       sortCode |-> <<"0","3","5","1","5","0","1","0","3">>],
      [name |-> <<"Z","e","n","i","t","h"," ","B","a","n","k">>,
       sortCode |-> <<"0","5","7","1","5","0","0","1","3">>]>>

\* What ai.models.generateContent can do for the bank-list request: fail, or
\* answer with a text that JSON.parse turns into a body. A body is an array
\* of items or something else; a field that is no string is Null.
BankResponses ==
    { [ok |-> FALSE],
      [ok |-> TRUE, isArray |-> FALSE, items |-> <<>>],
      [ok |-> TRUE, isArray |-> TRUE,
       items |-> <<[name |-> <<"Z","e","n","i","t","h">>, sortCode |-> Null]>>],
      [ok |-> TRUE, isArray |-> TRUE,
       items |-> <<[name |-> <<"Z","e","n","i","t","h">>, sortCode |-> <<"0","5","7">>],
                   [name |-> <<"A","c","c","e","s","s">>, sortCode |-> <<"0","4","4">>]>>],
      [ok |-> TRUE, isArray |-> TRUE,
       items |-> <<[name |-> <<"K","u","d","a">>, sortCode |-> <<"5","0","2">>]>>] }

\* Array.isArray(bankData) && bankData.every(item => typeof item.name ===
\* 'string' && typeof item.sortCode === 'string')
ExpectedFormat(response) ==
    /\ response.ok
    /\ response.isArray
    /\ \A i \in DOMAIN response.items :
          response.items[i].name # Null /\ response.items[i].sortCode # Null

\* fallbackBanks.sort((a, b) => a.name.localeCompare(b.name))
SortedFallback == SortByName(fallbackBanks)

\* Lines 28-78 of fetchBankData: the list the try or the catch stores in
\* cachedBankData and returns.
FetchedBankData(response) ==
    IF ExpectedFormat(response) THEN SortByName(response.items)
    ELSE SortedFallback

\* ------------------------------------------------------------ state

VARIABLES
    isVerifying,        \* useState: a single verification is running
    isBulkVerifying,    \* useState: a bulk verification is running
    verificationResult, \* useState: what the result modal shows, or Null
    bulkResults,        \* useState: what the bulk modal shows
    isModalOpen,        \* useState
    isBulkModalOpen,    \* useState
    isBankDataLoading,  \* useState of the form: the bank list is being loaded
    bankData,           \* useState of the form: the bank list shown
    isLoading,          \* useState: the status dashboard is loading
    bankStatuses,       \* useState: the bank names the dashboard shows
    cachedBankData,     \* module-level cache of geminiService: Null or Cached(list)
    bankRequests,       \* bank-list requests sent to the external service so far
    fetches,            \* the loadBanks / loadNetworkStatus runs started so far,
                        \* each with the answer its request got (reply), if any
    tasks,              \* the handler runs started so far, in start order: where
                        \* each stands (pc), its locals (text, accounts, results),
                        \* the calls it sent and the responses it received
    inFlight,           \* the verification requests the service has not answered
    blob,               \* the file the last download handed to the browser, or Null
    csvRow,             \* the line robustParseCsvRow is called with
    csvCells            \* what that call returned, or Null before it returns

appVars ==
    <<isVerifying, isBulkVerifying, verificationResult, bulkResults,
      isModalOpen, isBulkModalOpen>>

bankVars ==
    <<isBankDataLoading, bankData, isLoading, bankStatuses, cachedBankData,
      bankRequests, fetches>>

\* what the handlers of upload, form, modals and bank list leave alone
outVars == <<blob, csvRow, csvCells>>

vars ==
    <<isVerifying, isBulkVerifying, verificationResult, bulkResults,
      isModalOpen, isBulkModalOpen, isBankDataLoading, bankData, isLoading,
      bankStatuses, cachedBankData, bankRequests, fetches, tasks, inFlight,
      blob, csvRow, csvCells>>

TaskIds == DOMAIN tasks

BulkTasks == {t \in TaskIds : tasks[t].kind = "bulk"}

SingleTasks == {t \in TaskIds : tasks[t].kind = "single"}

\* disabled={isVerifying || isBulkVerifying || isBankDataLoading}
ButtonsDisabled == isVerifying \/ isBulkVerifying \/ isBankDataLoading

\* ------------------------------------------------------------ bulk upload

\* handleFileChange -> handleBulkUpload(file): reader.readAsText(file) starts.
handleBulkUpload(text) ==
    /\ ~ButtonsDisabled
    /\ tasks' = Append(tasks,
           [kind |-> "bulk", pc |-> "reading", text |-> text,
            accounts |-> <<>>, results |-> <<>>, sent |-> <<>>, replies |-> <<>>])
    /\ UNCHANGED <<appVars, bankVars, inFlight>>
    /\ UNCHANGED outVars

\* reader.onerror
ReaderOnError(t) ==
    /\ t \in BulkTasks /\ tasks[t].pc = "reading"
    /\ verificationResult' = Failure(FailedToRead, Null)
    /\ isModalOpen' = TRUE
    /\ tasks' = [tasks EXCEPT ![t].pc = "readError"]
    /\ UNCHANGED <<isVerifying, isBulkVerifying, bulkResults, isBulkModalOpen,
                   bankVars, inFlight>>
    /\ UNCHANGED outVars

\* NextCalls that sends every remaining record without awaiting.
NextCalls_AllAtOnce(t, accounts, done) ==
    {[task |-> t, idx |-> k, details |-> accounts[k]] : k \in (done + 1)..Len(accounts)}

\* for (const account of accountsToVerify) { ... await verifyAccountDetails(account) ... }:
\* the requests the loop sends once `done` outcomes have been pushed. The
\* loop awaits each call, so that is the next record's alone, or none.
NextCalls(t, accounts, done) ==
    IF done < Len(accounts)
    THEN {[task |-> t, idx |-> done + 1, details |-> accounts[done + 1]]}
    ELSE {}

\* BulkOutcome that leaves the record out of a failed outcome.
BulkOutcome_NoRecord(outcome, account) ==
    IF outcome.resolved THEN outcome.value
    ELSE Failure(outcome.error, Null)

\* Lines 186-190: what the loop pushes for one settled call.
BulkOutcome(outcome, account) ==
    IF outcome.resolved THEN outcome.value
    ELSE Failure(outcome.error, account)

\* Lines 183-196: the loop resumes with `results` pushed and the calls in
\* `settled` answered by `received`; it sends the next call and suspends, or ends the batch.
\* entering: the run comes from lines 180-181, which set the two states first.
RunLoop(t, accounts, results, settled, received, entering) ==
    LET calls == NextCalls(t, accounts, Len(results))
    IN  /\ inFlight' = (inFlight \ settled) \cup calls
        /\ IF Len(results) < Len(accounts)
           THEN /\ tasks' = [tasks EXCEPT ![t] =
                       [@ EXCEPT !.pc = "awaiting",
                                 !.accounts = accounts,
                                 !.results = results,
                                 !.replies = @ \o received,
                                 !.sent = @ \o [k \in 1..Cardinality(calls) |->
                                                   accounts[Len(results) + k]]]]
                /\ isBulkVerifying' = IF entering THEN TRUE ELSE isBulkVerifying
                /\ bulkResults' = IF entering THEN <<>> ELSE bulkResults
                /\ UNCHANGED isBulkModalOpen
           ELSE /\ tasks' = [tasks EXCEPT ![t] =
                       [@ EXCEPT !.pc = "done",
                                 !.accounts = accounts,
                                 !.results = results,
                                 !.replies = @ \o received]]
                /\ bulkResults' = results
                /\ isBulkVerifying' = FALSE
                /\ isBulkModalOpen' = TRUE

\* reader.onload up to its first await (or to its end).
ReaderOnLoad(t) ==
    /\ t \in BulkTasks /\ tasks[t].pc = "reading"
    /\ LET parsed == ParseUpload(tasks[t].text)
       IN  IF ~parsed.accepted
           THEN /\ verificationResult' = parsed.result
                /\ isModalOpen' = TRUE
                /\ tasks' = [tasks EXCEPT ![t].pc = "rejected"]
                /\ UNCHANGED <<isVerifying, isBulkVerifying, bulkResults,
                               isBulkModalOpen, bankVars, inFlight>>
           ELSE /\ RunLoop(t, parsed.accounts, <<>>, {}, <<>>, TRUE)
                /\ UNCHANGED <<isVerifying, verificationResult, isModalOpen,
                               bankVars>>
    /\ UNCHANGED outVars

\* An awaited call of a batch settles and the loop resumes.
BulkSettle(call, response) ==
    /\ call \in inFlight
    /\ call.task \in BulkTasks /\ tasks[call.task].pc = "awaiting"
    /\ response \in VerifyResponses(call.details)
    /\ RunLoop(call.task, tasks[call.task].accounts,
               Append(tasks[call.task].results,
                      BulkOutcome(verifyAccountDetails(response), call.details)),
               {call}, <<response>>, FALSE)
    /\ UNCHANGED <<isVerifying, verificationResult, isModalOpen, bankVars>>
    /\ UNCHANGED outVars

\* ------------------------------------------------------------ single record

Digits == {"0", "1", "2", "3", "4", "5", "6", "7", "8", "9"}

\* /^\d{n}$/.test(s)
IsDigits(s, n) == Len(s) = n /\ \A i \in DOMAIN s : s[i] \in Digits

\* validate() of the form
validate(formData) ==
    /\ Trim(formData.beneficiaryName) # <<>>
    /\ Trim(formData.bankName) # <<>>
    /\ Trim(formData.accountNumber) # <<>> /\ IsDigits(formData.accountNumber, 10)
    /\ Trim(formData.bvn) # <<>> /\ IsDigits(formData.bvn, 11)

\* handleSubmit -> handleVerification(details) up to its await
handleVerification(details) ==
    /\ ~ButtonsDisabled
    /\ validate(details)
    /\ isVerifying' = TRUE
    /\ verificationResult' = Null
    /\ tasks' = Append(tasks,
           [kind |-> "single", pc |-> "awaiting", text |-> <<>>,
            accounts |-> <<details>>, results |-> <<>>, sent |-> <<details>>,
            replies |-> <<>>])
    /\ inFlight' = inFlight \cup
           {[task |-> Len(tasks) + 1, idx |-> 1, details |-> details]}
    /\ UNCHANGED <<isBulkVerifying, bulkResults, isModalOpen, isBulkModalOpen,
                   bankVars>>
    /\ UNCHANGED outVars


\* SingleOutcome that leaves the submitted details out of a failed outcome.
SingleOutcome_NoRecord(outcome, details) ==
    IF outcome.resolved THEN outcome.value
    ELSE Failure(outcome.error, Null)

\* Lines 80-84: the result shown for the settled call.
SingleOutcome(outcome, details) ==
    IF outcome.resolved THEN outcome.value
    ELSE Failure(outcome.error, details)

\* The awaited call of handleVerification settles; try/catch/finally run.
SingleSettle(call, response) ==
    /\ call \in inFlight
    /\ call.task \in SingleTasks /\ tasks[call.task].pc = "awaiting"
    /\ response \in VerifyResponses(call.details)
    /\ verificationResult' = SingleOutcome(verifyAccountDetails(response), call.details)
    /\ isVerifying' = FALSE
    /\ isModalOpen' = TRUE
    /\ inFlight' = inFlight \ {call}
    /\ tasks' = [tasks EXCEPT ![call.task] =
           [@ EXCEPT !.pc = "done",
                     !.replies = <<response>>,
                     !.results = <<SingleOutcome(verifyAccountDetails(response),
                                                 call.details)>>]]
    /\ UNCHANGED <<isBulkVerifying, bulkResults, isBulkModalOpen, bankVars>>
    /\ UNCHANGED outVars

\* ------------------------------------------------------------ modals

closeModal ==
    /\ isModalOpen
    /\ isModalOpen' = FALSE
    /\ verificationResult' = Null
    /\ UNCHANGED <<isVerifying, isBulkVerifying, bulkResults, isBulkModalOpen,
                   bankVars, tasks, inFlight>>
    /\ UNCHANGED outVars

closeBulkModal ==
    /\ isBulkModalOpen
    /\ isBulkModalOpen' = FALSE
    /\ bulkResults' = <<>>
    /\ UNCHANGED <<isVerifying, isBulkVerifying, verificationResult, isModalOpen,
                   bankVars, tasks, inFlight>>
    /\ UNCHANGED outVars

\* ------------------------------------------------------------ bank list loading

\* A non-null cachedBankData holding list.
Cached(list) == [list |-> list]

FormMounted == \E f \in DOMAIN fetches : fetches[f].caller = "loadBanks"

StatusRuns == {f \in DOMAIN fetches : fetches[f].caller = "loadNetworkStatus"}

NamesOf(list) == [i \in DOMAIN list |-> list[i].name]

\* The mount effect of AccountVerificationForm: loadBanks() up to the await
\* of fetchBankData(), and through it when the cache answers.
loadBanks ==
    /\ ~FormMounted
    /\ IF cachedBankData # Null
       THEN /\ bankData' = cachedBankData.list
            /\ isBankDataLoading' = FALSE
            /\ fetches' = Append(fetches,
                   [caller |-> "loadBanks", pc |-> "done", reply |-> Null,
                    banks |-> cachedBankData.list])
            /\ UNCHANGED bankRequests
       ELSE /\ isBankDataLoading' = TRUE
            /\ bankRequests' = bankRequests + 1
            /\ fetches' = Append(fetches,
                   [caller |-> "loadBanks", pc |-> "requesting", reply |-> Null,
                    banks |-> <<>>])
            /\ UNCHANGED bankData
    /\ UNCHANGED <<appVars, isLoading, bankStatuses, cachedBankData, tasks, inFlight>>
    /\ UNCHANGED outVars

\* loadNetworkStatus(): the mount effect of App (after the form's), a tick of
\* the 30-second interval or a click on refresh; through fetchBankStatuses up
\* to the await of fetchBankData(), or to the 500 ms timer when the cache answers.
loadNetworkStatus ==
    /\ FormMounted
    /\ Cardinality(StatusRuns) < MaxPolls
    /\ isLoading' = TRUE
    /\ IF cachedBankData # Null
       THEN /\ fetches' = Append(fetches,
                   [caller |-> "loadNetworkStatus", pc |-> "timer", reply |-> Null,
                    banks |-> cachedBankData.list])
            /\ UNCHANGED bankRequests
       ELSE /\ bankRequests' = bankRequests + 1
            /\ fetches' = Append(fetches,
                   [caller |-> "loadNetworkStatus", pc |-> "requesting", reply |-> Null,
                    banks |-> <<>>])
    /\ UNCHANGED <<appVars, isBankDataLoading, bankData, bankStatuses,
                   cachedBankData, tasks, inFlight>>
    /\ UNCHANGED outVars

\* The request of one fetchBankData() run settles: the try or the catch
\* stores the list in the cache, and the caller resumes with it.
BankReply(f, response) ==
    /\ f \in DOMAIN fetches /\ fetches[f].pc = "requesting"
    /\ response \in BankResponses
    /\ cachedBankData' = Cached(FetchedBankData(response))
    /\ IF fetches[f].caller = "loadBanks"
       THEN /\ bankData' = FetchedBankData(response)
            /\ isBankDataLoading' = FALSE
            /\ fetches' = [fetches EXCEPT ![f].pc = "done",
                                          ![f].reply = response,
                                          ![f].banks = FetchedBankData(response)]
       ELSE /\ fetches' = [fetches EXCEPT ![f].pc = "timer",
                                          ![f].reply = response,
                                          ![f].banks = FetchedBankData(response)]
            /\ UNCHANGED <<bankData, isBankDataLoading>>
    /\ UNCHANGED <<appVars, isLoading, bankStatuses, bankRequests, tasks, inFlight>>
    /\ UNCHANGED outVars

\* The 500 ms timer of fetchBankStatuses fires and loadNetworkStatus ends.
StatusTimer(f) ==
    /\ f \in DOMAIN fetches /\ fetches[f].pc = "timer"
    /\ bankStatuses' = NamesOf(fetches[f].banks)
    /\ isLoading' = FALSE
    /\ fetches' = [fetches EXCEPT ![f].pc = "done"]
    /\ UNCHANGED <<appVars, isBankDataLoading, bankData, cachedBankData,
                   bankRequests, tasks, inFlight>>
    /\ UNCHANGED outVars

\* ------------------------------------------------------------ inputs

HeaderPlain == join(requiredHeaders, ",")

HeaderExtra ==
    join(<<S_bvn, S_accountNumber, S_bankName, S_beneficiaryName, <<"n","o","t","e">>>>, ",")

HeaderNoBvn == join(<<S_beneficiaryName, S_bankName, S_accountNumber>>, ",")

HeaderTwo == join(<<S_bankName, S_bvn>>, ",")

HeaderLines == {HeaderPlain, HeaderExtra, HeaderNoBvn, HeaderTwo}

Row_nk19 == <<"n", ",", "k", ",", "1", ",", "9">>
Row_mK18 == <<"m", ",", " ", "K", " ", ",", "1", ",", "8">>
Row_nj29 == <<"n", ",", "j", ",", "2", ",", "9">>
Row_blank4 == <<",", ",", ",">>
Row_nk19x == <<"n", ",", "k", ",", "1", ",", "9", ",", "x">>
Row_mK18y == <<"m", ",", "K", ",", "1", ",", "8", ",", "y">>
Row_n__9 == <<"n", ",", ",", ",", "9">>
Row_onlyNote == <<",", ",", ",", ",", "x">>
Row_space == <<" ">>

DataLines ==
    {Row_nk19, Row_mK18, Row_nj29, Row_blank4, Row_nk19x, Row_mK18y,
     Row_n__9, Row_onlyNote, Row_space}

\* The texts a FileReader can hand to reader.onload: the empty text, and a
\* header line followed by up to MaxRows further lines.
UploadTexts ==
    {<<>>} \cup
    {join(<<h>> \o rows, "\n") :
        h \in HeaderLines, rows \in UNION {[1..n -> DataLines] : n \in 0..MaxRows}}

\* The texts of the runs that interleave several handlers.
FewTexts ==
    { join(<<HeaderPlain, Row_nk19, Row_nj29>>, "\n"),
      join(<<HeaderPlain, Row_nk19x>>, "\n") }

Details(name, bank, account, bvn0) ==
    [beneficiaryName |-> name, bankName |-> bank, accountNumber |-> account, bvn |-> bvn0]

FormInputs ==
    { Details(<<"n">>, <<"k">>, <<"0","1","2","3","4","5","6","7","8","9">>,
              <<"1","2","3","4","5","6","7","8","9","0","1">>),
      Details(<<"n">>, <<"k">>, <<"0","1","2">>,
              <<"1","2","3","4","5","6","7","8","9","0","1">>) }

\* ------------------------------------------------------------ specifications

KudaOnly == <<[name |-> <<"K","u","d","a">>, sortCode |-> <<"5","0","2">>]>>

\* The answer of the service that holds that list.
KudaReply == [ok |-> TRUE, isArray |-> TRUE, items |-> KudaOnly]

AppInit ==
    /\ isVerifying = FALSE
    /\ isBulkVerifying = FALSE
    /\ verificationResult = Null
    /\ bulkResults = <<>>
    /\ isModalOpen = FALSE
    /\ isBulkModalOpen = FALSE
    /\ tasks = <<>>
    /\ inFlight = {}

\* Nothing was downloaded and robustParseCsvRow is not being called.
OutInit ==
    /\ blob = Null
    /\ csvRow = <<>>
    /\ csvCells = Null

\* The application as constructed, before its mount effects.
MountInit ==
    /\ AppInit
    /\ OutInit
    /\ isBankDataLoading = TRUE
    /\ bankData = <<>>
    /\ isLoading = TRUE
    /\ bankStatuses = <<>>
    /\ cachedBankData = Null
    /\ bankRequests = 0
    /\ fetches = <<>>

\* The application once the mount-time loads have ended (the service answered
\* both bank-list requests with the same one-bank list): the form is usable.
Init ==
    /\ AppInit
    /\ OutInit
    /\ isBankDataLoading = FALSE
    /\ bankData = KudaOnly
    /\ isLoading = FALSE
    /\ bankStatuses = NamesOf(KudaOnly)
    /\ cachedBankData = Cached(KudaOnly)
    /\ bankRequests = 2
    /\ fetches = <<[caller |-> "loadBanks", pc |-> "done", reply |-> KudaReply,
                    banks |-> KudaOnly],
                   [caller |-> "loadNetworkStatus", pc |-> "done", reply |-> KudaReply,
                    banks |-> KudaOnly]>>

\* The form and the modals, with several handlers interleaving.
Next ==
    \/ Len(tasks) < MaxTasks /\ \E text \in FewTexts : handleBulkUpload(text)
    \/ \E t \in TaskIds : ReaderOnLoad(t)
    \/ \E t \in TaskIds : ReaderOnError(t)
    \/ \E call \in inFlight : \E response \in VerifyResponses(call.details) :
          BulkSettle(call, response)
    \/ Len(tasks) < MaxTasks /\ \E details \in FormInputs :
          handleVerification(details)
    \/ \E call \in inFlight : \E response \in VerifyResponses(call.details) :
          SingleSettle(call, response)
    \/ closeModal
    \/ closeBulkModal

Spec == Init /\ [][Next]_vars


\* Every verification request is answered in the end: the promise that
\* verifyAccountDetails awaits settles, and the handler that awaits it resumes.
CallsSettle ==
    /\ WF_vars(\E call \in inFlight : \E response \in VerifyResponses(call.details) :
                  BulkSettle(call, response))
    /\ WF_vars(\E call \in inFlight : \E response \in VerifyResponses(call.details) :
                  SingleSettle(call, response))

\* The interleaved handlers, every call being answered.
SpecLive == Spec /\ CallsSettle

\* One upload, over every text of UploadTexts.
NextUpload ==
    \/ tasks = <<>> /\ \E text \in UploadTexts : handleBulkUpload(text)
    \/ \E t \in TaskIds : ReaderOnLoad(t)
    \/ \E t \in TaskIds : ReaderOnError(t)
    \/ \E call \in inFlight : \E response \in VerifyResponses(call.details) :
          BulkSettle(call, response)
    \/ closeModal
    \/ closeBulkModal

SpecUpload == Init /\ [][NextUpload]_vars

\* The bank-list loads from mount on.
NextBank ==
    \/ loadBanks
    \/ loadNetworkStatus
    \/ \E f \in DOMAIN fetches : \E response \in BankResponses : BankReply(f, response)
    \/ \E f \in DOMAIN fetches : StatusTimer(f)

SpecBank == MountInit /\ [][NextBank]_vars

\* ------------------------------------------------------------ column lookup and keys

\* A header that has the bvn column twice.
HeaderBvnTwice ==
    join(<<S_bvn, S_accountNumber, S_bankName, S_beneficiaryName, S_bvn>>, ",")

TableHeaders == {HeaderPlain, HeaderExtra, HeaderBvnTwice}

Row_Ada == <<"A", "d", "a", ",", "Z", "e", "n", "i", "t", "h", ",", "0", "1", "2", "3", "4", "5", "6", "7", "8", "9", ",", "1", "2", "3", "4", "5", "6", "7", "8", "9", "0", "1">>
Row_Ada5 == <<"1", "2", "3", "4", "5", "6", "7", "8", "9", "0", "1", ",", "0", "1", "2", "3", "4", "5", "6", "7", "8", "9", ",", "Z", "e", "n", "i", "t", "h", ",", "A", "d", "a", ",", "x">>
Row_n_k19 == <<"n", ",", "-", "k", ",", "1", ",", "9">>
Row_mk1_8 == <<"m", ",", "k", ",", "1", "-", ",", "8">>
Row_nAb29 == <<"n", ",", "A", "-", "b", ",", "2", ",", "9">>

TableLines == {Row_Ada, Row_Ada5, Row_n_k19, Row_mk1_8, Row_nAb29}

\* A header line followed by up to MaxRows lines of TableLines.
TableTexts ==
    {join(<<h>> \o rows, "\n") :
        h \in TableHeaders, rows \in UNION {[1..n -> TableLines] : n \in 0..MaxRows}}

\* One upload, over every text of TableTexts.
NextTable ==
    \/ tasks = <<>> /\ \E text \in TableTexts : handleBulkUpload(text)
    \/ \E t \in TaskIds : ReaderOnLoad(t)
    \/ \E t \in TaskIds : ReaderOnError(t)
    \/ \E call \in inFlight : \E response \in VerifyResponses(call.details) :
          BulkSettle(call, response)
    \/ closeModal
    \/ closeBulkModal

SpecTable == Init /\ [][NextTable]_vars

\* ------------------------------------------------------------ tokenizer calls

\* The characters of the lines robustParseCsvRow is called with.
RowChars == {"a", ",", "\"", " "}

Row_QuotedComma == <<"a", ",", "\"", "b", ",", "c", "\"", ",", "d">>
Row_EscapedQuote == <<"a", ",", "\"", "b", "\"", "\"", "c", "\"", ",", "d">>
Row_OpenQuote == <<"a", ",", "\"", "b", ",", "c">>
Row_Padded == <<" ", "a", " ", ",", " ", "b", " ">>

\* Every line of up to MaxLen characters of RowChars, and the lines above.
RowInputs ==
    UNION {[1..n -> RowChars] : n \in 0..MaxLen}
        \cup {Row_QuotedComma, Row_EscapedQuote, Row_OpenQuote, Row_Padded}

\* What a call of robustParseCsvRow that has returned left in csvCells.
Returned(cells) == [cells |-> cells]

\* robustParseCsvRow(csvRow) runs and returns.
CallRobustParseCsvRow ==
    /\ csvCells = Null
    /\ csvCells' = Returned(robustParseCsvRow(csvRow))
    /\ UNCHANGED <<appVars, bankVars, tasks, inFlight, blob, csvRow>>

\* robustParseCsvRow is about to be called with a line of RowInputs.
RowInit ==
    /\ AppInit
    /\ isBankDataLoading = FALSE
    /\ bankData = KudaOnly
    /\ isLoading = FALSE
    /\ bankStatuses = NamesOf(KudaOnly)
    /\ cachedBankData = Cached(KudaOnly)
    /\ bankRequests = 2
    /\ fetches = <<[caller |-> "loadBanks", pc |-> "done", reply |-> KudaReply,
                    banks |-> KudaOnly],
                   [caller |-> "loadNetworkStatus", pc |-> "done", reply |-> KudaReply,
                    banks |-> KudaOnly]>>
    /\ blob = Null
    /\ csvRow \in RowInputs
    /\ csvCells = Null

NextRow == CallRobustParseCsvRow

SpecRow == RowInit /\ [][NextRow]_vars

\* ------------------------------------------------------------ downloads

\* The most outcomes the bulk modal shows when a download is asked for.
MaxResults == 2

S_status == <<"s","t","a","t","u","s">>
S_message == <<"m","e","s","s","a","g","e">>
S_Success == <<"S","u","c","c","e","s","s">>
S_Failed == <<"F","a","i","l","e","d">>

\* field.replace(/"/g, '""')
RECURSIVE DoubleQuotes(_)
DoubleQuotes(field) ==
    IF field = <<>> THEN <<>>
    ELSE (IF Head(field) = "\"" THEN <<"\"", "\"">> ELSE <<Head(field)>>)
             \o DoubleQuotes(Tail(field))

\* const formatCsvField = (field: string) => ...
formatCsvField(field) ==
    LET cleanField == DoubleQuotes(field)
    IN  IF \E i \in DOMAIN cleanField : cleanField[i] \in {"\"", ",", "\n"}
        THEN <<"\"">> \o cleanField \o <<"\"">>
        ELSE cleanField

\* data?.beneficiaryName || '' and the like
FieldOrEmpty(data, f) == IF data = Null THEN <<>> ELSE data[f]

\* The callback of bulkResults.map in handleDownloadAllResults.
AllResultsRow(r) ==
    join(<<FieldOrEmpty(r.data, "beneficiaryName"),
           FieldOrEmpty(r.data, "bankName"),
           FieldOrEmpty(r.data, "accountNumber"),
           FieldOrEmpty(r.data, "bvn"),
           IF r.success THEN S_Success ELSE S_Failed,
           formatCsvField(r.message)>>, ",")

\* [headers.join(','), ...rows].join('\n')
CsvContent(headers, rows) == join(<<join(headers, ",")>> \o rows, "\n")

\* The "Download All Results" button of the bulk modal.
handleDownloadAllResults ==
    /\ isBulkModalOpen
    /\ Len(bulkResults) # 0
    /\ blob' = [name |-> "all_verification_results.csv",
                content |->
                    CsvContent(requiredHeaders \o <<S_status, S_message>>,
                               [k \in DOMAIN bulkResults |-> AllResultsRow(bulkResults[k])])]
    /\ UNCHANGED <<appVars, bankVars, tasks, inFlight, csvRow, csvCells>>

\* successfulResults that keeps every outcome with a record.
successfulResults_WithRecord(results) ==
    SelectSeq(results, LAMBDA r : r.data # Null)

\* bulkResults.filter(r => r.success && r.data)
successfulResults(results) ==
    SelectSeq(results, LAMBDA r : r.success /\ r.data # Null)

\* The callback of successfulResults.map in handleDownloadResults.
SuccessfulRow(r) ==
    join(<<r.data.beneficiaryName, r.data.bankName, r.data.accountNumber, r.data.bvn>>, ",")

\* results.filter(r => r.success).length of BulkResultsDisplay
successfulCount == Len(SelectSeq(bulkResults, LAMBDA r : r.success))

\* The "Download Successful Results" button of the bulk modal.
handleDownloadResults ==
    /\ isBulkModalOpen
    /\ successfulCount # 0
    /\ IF Len(successfulResults(bulkResults)) = 0
       THEN UNCHANGED blob
       ELSE blob' = [name |-> "successful_verifications.csv",
                     content |->
                         CsvContent(requiredHeaders,
                                    [k \in DOMAIN successfulResults(bulkResults) |->
                                        SuccessfulRow(successfulResults(bulkResults)[k])])]
    /\ UNCHANGED <<appVars, bankVars, tasks, inFlight, csvRow, csvCells>>

\* Messages and records of the outcomes shown: what the service answered, or
\* what the upload read from quoted cells.
Message_ok == <<"o", "k">>
Message_comma == <<"x", ",", "y">>
Message_quote == <<"x", "\"", "y">>
Message_padded == <<" ", "x", ",", "y">>

Record_plain == Details(<<"n">>, <<"k">>, <<"1">>, <<"9">>)
Record_comma == Details(<<"D", ",", "J">>, <<"k">>, <<"1">>, <<"9">>)
Record_quote == Details(<<"n">>, <<"k", "\"">>, <<"2">>, <<"9">>)

ExportOutcomes ==
    { [success |-> TRUE, message |-> Message_ok, data |-> Record_plain],
      [success |-> TRUE, message |-> Message_ok, data |-> Null],
      [success |-> TRUE, message |-> Message_comma, data |-> Record_comma],
      [success |-> FALSE, message |-> Message_comma, data |-> Record_plain],
      [success |-> FALSE, message |-> Message_quote, data |-> Null],
      [success |-> FALSE, message |-> Message_padded, data |-> Record_plain],
      [success |-> FALSE, message |-> Message_comma, data |-> Record_quote] }

\* A batch has ended and the bulk modal shows its outcomes.
ExportInit ==
    /\ isVerifying = FALSE
    /\ isBulkVerifying = FALSE
    /\ verificationResult = Null
    /\ bulkResults \in UNION {[1..n -> ExportOutcomes] : n \in 1..MaxResults}
    /\ isModalOpen = FALSE
    /\ isBulkModalOpen = TRUE
    /\ tasks = <<>>
    /\ inFlight = {}
    /\ OutInit
    /\ isBankDataLoading = FALSE
    /\ bankData = KudaOnly
    /\ isLoading = FALSE
    /\ bankStatuses = NamesOf(KudaOnly)
    /\ cachedBankData = Cached(KudaOnly)
    /\ bankRequests = 2
    /\ fetches = <<[caller |-> "loadBanks", pc |-> "done", reply |-> KudaReply,
                    banks |-> KudaOnly],
                   [caller |-> "loadNetworkStatus", pc |-> "done", reply |-> KudaReply,
                    banks |-> KudaOnly]>>

\* The buttons of the bulk modal.
NextExport ==
    \/ handleDownloadResults
    \/ handleDownloadAllResults
    \/ closeBulkModal

SpecExport == ExportInit /\ [][NextExport]_vars

\* ------------------------------------------------------------ properties

Required == {S_beneficiaryName, S_bankName, S_accountNumber, S_bvn}

FieldNames == {"beneficiaryName", "bankName", "accountNumber", "bvn"}

\* reader.onload has run for upload t
Parsed(t) == tasks[t].pc \in {"rejected", "awaiting", "done"}

\* upload t was accepted and its verification phase entered
Entered(t) == tasks[t].pc \in {"awaiting", "done"}

RECURSIVE TokenizeAll(_, _)
TokenizeAll(lines, acc) ==
    IF Len(acc) = Len(lines) THEN acc
    ELSE TokenizeAll(lines, Append(acc, robustParseCsvRow(lines[Len(acc) + 1])))

\* The cells of the lines of a text that are not blank; row 1 is the header.
RowsOf(text) == TokenizeAll(NonBlankLines(text), <<>>)

DataRows(rows) == 2..Len(rows)

MissingIn(rows) == {rh \in Required : \A i \in DOMAIN rows[1] : rows[1][i] # rh}

\* there is a header with every required name, and a further line
HeaderOk(rows) == Len(rows) >= 2 /\ MissingIn(rows) = {}

\* The data rows whose cell count differs from the header's.
BadRows(rows) == {p \in DataRows(rows) : Len(rows[p]) # Len(rows[1])}

\* The column where name stands in the header (the last one of that name).
Col(rows, name) ==
    CHOOSE i \in DOMAIN rows[1] :
        /\ rows[1][i] = name
        /\ \A j \in DOMAIN rows[1] : rows[1][j] = name => j <= i

\* The record that data row p spells.
RowRecord(rows, p) ==
    [beneficiaryName |-> rows[p][Col(rows, S_beneficiaryName)],
     bankName |-> rows[p][Col(rows, S_bankName)],
     accountNumber |-> rows[p][Col(rows, S_accountNumber)],
     bvn |-> rows[p][Col(rows, S_bvn)]]

AllEmpty(cells) == \A i \in DOMAIN cells : Trim(cells[i]) = <<>>

\* some field of the record is not empty
HasValue(account) == \E f \in FieldNames : Trim(account[f]) # <<>>

\* The data rows that give a record: those with a required field that is not empty.
KeptRows(rows) == {p \in DataRows(rows) : HasValue(RowRecord(rows, p))}

\* The result modal shows a failure with a message of this kind and no record.
ShowsFailure(kind) ==
    /\ isModalOpen
    /\ verificationResult # Null
    /\ verificationResult.success = FALSE
    /\ verificationResult.data = Null
    /\ verificationResult.message.kind = kind

\* Upload t was rejected as a whole: no call was made for it, the bulk phase
\* was not entered, and while the result modal stays open it shows a failure
\* of this kind.
RejectedWith(t, kind) ==
    /\ tasks[t].pc = "rejected"
    /\ tasks[t].sent = <<>>
    /\ inFlight = {}
    /\ ~isBulkVerifying /\ bulkResults = <<>> /\ ~isBulkModalOpen
    /\ isModalOpen => ShowsFailure(kind)

ParseKind == "Could not parse the CSV file due to formatting issues"
HeaderKind == "Invalid CSV header. Missing required columns"
DuplicateKind == "Duplicate entries found in the file"

\* C1: an upload (with a complete header) in which at least one data row has
\* a cell count different from the header's fails as a whole: the message
\* lists every such row and no other, no record of the file is passed to
\* verifyAccountDetails, and isBulkVerifying and bulkResults stay as they were.
C1_StructuralErrorFailsWholeUpload ==
    \A t \in BulkTasks :
        Parsed(t) =>
            LET rows == RowsOf(tasks[t].text)
            IN  (HeaderOk(rows) /\ BadRows(rows) # {}) =>
                    /\ RejectedWith(t, ParseKind)
                    /\ isModalOpen =>
                          LET errors == verificationResult.message.errors
                          IN  /\ {errors[i].row : i \in DOMAIN errors} = BadRows(rows)
                              /\ Len(errors) = Cardinality(BadRows(rows))

\* C1 witness: a rejected upload with two malformed rows and a well-formed one.
C1_Witness ==
    \E t \in BulkTasks :
        /\ tasks[t].pc = "rejected" /\ isModalOpen
        /\ LET rows == RowsOf(tasks[t].text)
           IN  /\ HeaderOk(rows)
               /\ Cardinality(BadRows(rows)) = 2
               /\ DataRows(rows) \ BadRows(rows) # {}

\* The (accountNumber, bankName) pair of a record, trimmed and lower-cased.
PairOf(account) ==
    <<toLowerCase(Trim(account.accountNumber)), toLowerCase(Trim(account.bankName))>>

EmptyPair == <<<<>>, <<>>>>

\* The pairs that more than one record row of a well-formed upload spells.
RepeatedPairs(rows) ==
    LET pair == [p \in KeptRows(rows) |-> PairOf(RowRecord(rows, p))]
    IN  {pair[p] : p \in {p \in KeptRows(rows) :
                             \E q \in KeptRows(rows) : q # p /\ pair[q] = pair[p]}}

\* no two records of the batch have the same pair, save the pairs in `except`
DistinctPairs(accounts, except) ==
    \A i, j \in DOMAIN accounts :
        (i < j /\ PairOf(accounts[i]) \notin except) =>
            PairOf(accounts[i]) # PairOf(accounts[j])

\* C2 as stated: no accepted batch holds two records with the same pair, and
\* every well-formed file with a repeated pair is rejected with a duplicate
\* error before any verification call.
C2_Original ==
    \A t \in BulkTasks :
        Parsed(t) =>
            LET rows == RowsOf(tasks[t].text)
            IN  /\ Entered(t) => DistinctPairs(tasks[t].accounts, {})
                /\ (HeaderOk(rows) /\ BadRows(rows) = {} /\ RepeatedPairs(rows) # {}) =>
                      RejectedWith(t, DuplicateKind)

\* C2 amended: the same for the pairs in which the account number or the bank
\* name is not empty; records whose account number and bank name are both
\* empty are not compared.
C2_NoRepeatedNonEmptyPair ==
    \A t \in BulkTasks :
        Parsed(t) =>
            LET rows == RowsOf(tasks[t].text)
            IN  /\ Entered(t) => DistinctPairs(tasks[t].accounts, {EmptyPair})
                /\ (HeaderOk(rows) /\ BadRows(rows) = {}
                        /\ RepeatedPairs(rows) \ {EmptyPair} # {}) =>
                      RejectedWith(t, DuplicateKind)

\* C2 witness: a file rejected for two rows that agree on the pair up to case
\* and surrounding blanks and differ in the other fields.
C2_Witness ==
    \E t \in BulkTasks :
        /\ tasks[t].pc = "rejected" /\ ShowsFailure(DuplicateKind)
        /\ LET rows == RowsOf(tasks[t].text)
           IN  \E p, q \in KeptRows(rows) :
                  /\ p < q
                  /\ PairOf(RowRecord(rows, p)) = PairOf(RowRecord(rows, q))
                  /\ RowRecord(rows, p).bankName # RowRecord(rows, q).bankName
                  /\ RowRecord(rows, p).bvn # RowRecord(rows, q).bvn

\* the service call that got this response rejected
Rejects(response) == ~(response.ok /\ response.typed)

\* C3: a call that fails for one record does not abort the batch: when the
\* batch ends every record has been sent, the results hold one outcome per
\* record at the record's position, and the outcome of a failed call is
\* {success: false} with the submitted record and the error's message.
C3_FailedCallDoesNotAbortBatch ==
    \A t \in BulkTasks :
        /\ Entered(t) =>
              /\ Len(tasks[t].replies) = Len(tasks[t].results)
              /\ \A i \in DOMAIN tasks[t].results :
                    tasks[t].results[i] =
                        IF Rejects(tasks[t].replies[i])
                        THEN [success |-> FALSE, message |-> Unavailable,
                              data |-> tasks[t].accounts[i]]
                        ELSE tasks[t].replies[i].body
        /\ tasks[t].pc = "done" =>
              /\ Len(tasks[t].results) = Len(tasks[t].accounts)
              /\ tasks[t].sent = tasks[t].accounts
              /\ isBulkModalOpen => bulkResults = tasks[t].results

\* C3 witness: a finished batch whose first call failed and whose last one
\* was answered.
C3_Witness ==
    \E t \in BulkTasks :
        /\ tasks[t].pc = "done" /\ isBulkModalOpen
        /\ Len(tasks[t].accounts) >= 2
        /\ Rejects(tasks[t].replies[1])
        /\ ~Rejects(tasks[t].replies[Len(tasks[t].accounts)])

\* The calls of task t that the service has not answered.
CallsOf(t) == {call \in inFlight : call.task = t}

\* C4: within one batch the records are sent in input order and one at a
\* time: the call for a record leaves only once the outcomes of all records
\* before it have been pushed, and it is the only call of the batch in flight.
C4_OneCallAtATimeInOrder ==
    \A t \in BulkTasks :
        /\ Cardinality(CallsOf(t)) <= 1
        /\ tasks[t].sent = SubSeq(tasks[t].accounts, 1, Len(tasks[t].sent))
        /\ IF tasks[t].pc = "awaiting"
           THEN /\ Len(tasks[t].sent) = Len(tasks[t].results) + 1
                /\ CallsOf(t) = {[task |-> t, idx |-> Len(tasks[t].sent),
                                  details |-> tasks[t].accounts[Len(tasks[t].sent)]]}
           ELSE /\ Len(tasks[t].sent) = Len(tasks[t].results)
                /\ CallsOf(t) = {}

\* C4 witness: the second call of a batch is in flight, the first one answered.
C4_Witness ==
    \E t \in BulkTasks :
        /\ tasks[t].pc = "awaiting"
        /\ Len(tasks[t].results) = 1
        /\ Cardinality(CallsOf(t)) = 1

\* C5: at every moment at most one external verification call is in flight.
C5_AtMostOneCallInFlight == Cardinality(inFlight) <= 1

\* C6: at most one external bank-list request is ever issued.
C6_BankListRequestedOnce == bankRequests <= 1

\* C7: a header that lacks required names fails the whole upload, whatever
\* the data rows are, and the message names exactly the missing names.
C7_MissingHeadersNamedExactly ==
    \A t \in BulkTasks :
        Parsed(t) =>
            LET rows == RowsOf(tasks[t].text)
            IN  (Len(rows) >= 2 /\ MissingIn(rows) # {}) =>
                    /\ RejectedWith(t, HeaderKind)
                    /\ isModalOpen =>
                          LET missing == verificationResult.message.missing
                          IN  /\ {missing[i] : i \in DOMAIN missing} = MissingIn(rows)
                              /\ Len(missing) = Cardinality(MissingIn(rows))

\* C7 witness: a header lacking two names, over a data row whose cell count
\* differs from the header's.
C7_Witness ==
    \E t \in BulkTasks :
        /\ tasks[t].pc = "rejected" /\ ShowsFailure(HeaderKind)
        /\ LET rows == RowsOf(tasks[t].text)
           IN  Cardinality(MissingIn(rows)) = 2 /\ BadRows(rows) # {}

\* C8: every structural error names the 1-based position of its line among
\* the non-blank lines (the header is 1), the header's cell count as expected
\* and the line's cell count as found.
C8_RowNumberCountsNonBlankLines ==
    \A t \in BulkTasks :
        (tasks[t].pc = "rejected" /\ ShowsFailure(ParseKind)) =>
            LET rows == RowsOf(tasks[t].text)
            IN  \A i \in DOMAIN verificationResult.message.errors :
                    LET e == verificationResult.message.errors[i]
                    IN  /\ e.row \in DataRows(rows)
                        /\ e.expected = Len(rows[1])
                        /\ e.found = Len(rows[e.row])
                        /\ e.found # e.expected

\* C8 witness: a structural error for a line that follows a blank line, so
\* that its position in the text and among the non-blank lines differ.
C8_Witness ==
    \E t \in BulkTasks :
        /\ tasks[t].pc = "rejected" /\ ShowsFailure(ParseKind)
        /\ Trim(SplitLines(tasks[t].text)[2]) = <<>>
        /\ verificationResult.message.errors[1].row = 2
        /\ verificationResult.message.errors[1].found = 5

\* The rows that the structural error shown names.
ErrorRows ==
    {verificationResult.message.errors[i].row :
        i \in DOMAIN verificationResult.message.errors}

AllEmptyOfHeaderWidth(rows, p) == AllEmpty(rows[p]) /\ Len(rows[p]) = Len(rows[1])

\* C9 as stated: a data row whose cells are all empty gives no error and no
\* record, whatever its number of cells.
C9_Original ==
    \A t \in BulkTasks :
        Parsed(t) =>
            LET rows == RowsOf(tasks[t].text)
            IN  /\ (tasks[t].pc = "rejected" /\ ShowsFailure(ParseKind)) =>
                      \A p \in ErrorRows : ~AllEmpty(rows[p])
                /\ Entered(t) =>
                      \A k \in DOMAIN tasks[t].accounts : HasValue(tasks[t].accounts[k])

\* C9 amended: a data row whose cells are all empty and as many as the
\* header's gives no error and no record; one with another number of cells is
\* reported as a structural error, which fails the upload.
C9_BlankRowOfHeaderWidthDropped ==
    \A t \in BulkTasks :
        Parsed(t) =>
            LET rows == RowsOf(tasks[t].text)
            IN  /\ (tasks[t].pc = "rejected" /\ ShowsFailure(ParseKind)) =>
                      \A p \in ErrorRows : ~AllEmptyOfHeaderWidth(rows, p)
                /\ Entered(t) =>
                      /\ \A k \in DOMAIN tasks[t].accounts : HasValue(tasks[t].accounts[k])
                      /\ Len(tasks[t].accounts) <=
                            Cardinality({p \in DataRows(rows) : ~AllEmpty(rows[p])})
                /\ (HeaderOk(rows) /\ \E p \in BadRows(rows) : AllEmpty(rows[p])) =>
                      /\ RejectedWith(t, ParseKind)
                      /\ isModalOpen =>
                            \A p \in BadRows(rows) :
                                \E i \in DOMAIN verificationResult.message.errors :
                                    verificationResult.message.errors[i].row = p

\* C9 witness: an accepted upload with an all-empty row among its data rows.
C9_Witness ==
    \E t \in BulkTasks :
        /\ Entered(t)
        /\ Len(tasks[t].accounts) >= 1
        /\ LET rows == RowsOf(tasks[t].text)
           IN  \E p \in DataRows(rows) : AllEmpty(rows[p])

\* The k-th of the rows that give a record, in the order of the file.
KthKept(rows, k) ==
    CHOOSE p \in KeptRows(rows) : Cardinality({q \in KeptRows(rows) : q <= p}) = k

HeaderName ==
    [beneficiaryName |-> S_beneficiaryName, bankName |-> S_bankName,
     accountNumber |-> S_accountNumber, bvn |-> S_bvn]

\* account has the four fields, each the cell of data row p at a column where
\* the field's name stands in the header
SpelledBy(account, rows, p) ==
    /\ DOMAIN account = FieldNames
    /\ \A f \in FieldNames :
          \E i \in DOMAIN rows[1] :
              rows[1][i] = HeaderName[f] /\ account[f] = rows[p][i]

AdaRecord ==
    [beneficiaryName |-> <<"A", "d", "a">>, bankName |-> <<"Z", "e", "n", "i", "t", "h">>,
     accountNumber |-> <<"0", "1", "2", "3", "4", "5", "6", "7", "8", "9">>, bvn |-> <<"1", "2", "3", "4", "5", "6", "7", "8", "9", "0", "1">>]

\* C11: every record built from an upload has exactly the four fields, each
\* holding the cell of its row at the column where the field's name stands in
\* the header, whatever the column order and the extra columns; the header
\* beneficiaryName,bankName,accountNumber,bvn over the row
\* Ada,Zenith,0123456789,12345678901 gives that one record.
C11_RecordFieldsFromHeaderColumns ==
    \A t \in BulkTasks :
        Entered(t) =>
            LET rows == RowsOf(tasks[t].text)
            IN  /\ \A k \in DOMAIN tasks[t].accounts :
                      \E p \in DataRows(rows) : SpelledBy(tasks[t].accounts[k], rows, p)
                /\ tasks[t].text = join(<<HeaderPlain, Row_Ada>>, "\n") =>
                      tasks[t].accounts = <<AdaRecord>>

\* C11 witness: the same record read from a row of five cells under a header
\* with the columns in another order and a fifth column.
C11_Witness ==
    \E t \in BulkTasks :
        /\ Entered(t)
        /\ tasks[t].text = join(<<HeaderExtra, Row_Ada5>>, "\n")
        /\ tasks[t].accounts = <<AdaRecord>>

\* How often the character c occurs in s.
Count(s, c) == Cardinality({i \in DOMAIN s : s[i] = c})

\* The commas of s that have an even number of quote characters before them:
\* the commas outside quoted spans.
Separators(s) ==
    {i \in DOMAIN s : s[i] = "," /\ Count(SubSeq(s, 1, i - 1), "\"") % 2 = 0}

\* The k-th stretch of s between two commas outside quoted spans.
Segment(s, k) ==
    SubSeq(s, IF k = 1 THEN 1 ELSE Nth(Separators(s), k - 1) + 1,
              IF k = Cardinality(Separators(s)) + 1 THEN Len(s)
              ELSE Nth(Separators(s), k) - 1)

\* C12: robustParseCsvRow splits a line exactly at the commas outside quoted
\* spans: there is one cell more than such commas, the last cell needs no
\* trailing comma, and every cell keeps the commas of its stretch of the line
\* (the commas inside quotes); a,"b,c",d gives a / b,c / d.
C12_SplitsAtCommasOutsideQuotes ==
    csvCells # Null =>
        /\ Len(csvCells.cells) = Cardinality(Separators(csvRow)) + 1
        /\ \A k \in DOMAIN csvCells.cells :
              Count(csvCells.cells[k], ",") = Count(Segment(csvRow, k), ",")
        /\ csvRow = Row_QuotedComma =>
              csvCells.cells = <<<<"a">>, <<"b", ",", "c">>, <<"d">>>>

\* C12 witness: the call for a,"b,c",d has returned three cells.
C12_Witness ==
    /\ csvRow = Row_QuotedComma
    /\ csvCells # Null
    /\ Len(csvCells.cells) = 3
    /\ Count(csvCells.cells[2], ",") = 1

\* How many quote characters follow each other in s from position j on.
RunLength(s, j) ==
    Cardinality({e \in j..Len(s) : \A i \in j..e : s[i] = "\""})

\* The literal quotes that s gives from position j on, s starting outside a
\* quoted span: of a run of quote characters the first one opens a span when
\* the run starts outside one, the others pair up to one literal quote each,
\* and an unpaired last one closes the span.
RECURSIVE LiteralQuotes(_, _)
LiteralQuotes(s, j) ==
    IF j > Len(s) THEN 0
    ELSE IF s[j] # "\"" THEN LiteralQuotes(s, j + 1)
    ELSE LET n == RunLength(s, j)
             inside == Count(SubSeq(s, 1, j - 1), "\"") % 2 = 1
         IN  (IF inside THEN n \div 2 ELSE (n - 1) \div 2)
                 + LiteralQuotes(s, j + n)

\* C13: a quote character toggles the inside-quotes state and gives the cell
\* nothing, except inside a quoted span right before another quote character:
\* that pair gives the cell one literal quote and does not toggle;
\* a,"b""c",d gives a / b"c / d.
C13_EscapedQuotePairGivesOneQuote ==
    csvCells # Null =>
        /\ \A k \in DOMAIN csvCells.cells :
              /\ Count(csvCells.cells[k], "\"") = LiteralQuotes(Segment(csvRow, k), 1)
              /\ Count(csvCells.cells[k], "a") = Count(Segment(csvRow, k), "a")
        /\ csvRow = Row_EscapedQuote =>
              csvCells.cells = <<<<"a">>, <<"b", "\"", "c">>, <<"d">>>>

\* C13 witness: the call for a,"b""c",d has returned, the second cell with one quote.
C13_Witness ==
    /\ csvRow = Row_EscapedQuote
    /\ csvCells # Null
    /\ Len(csvCells.cells) = 3
    /\ Count(csvCells.cells[2], "\"") = 1

\* t ends s
EndsWith(s, t) ==
    Len(t) <= Len(s) /\ SubSeq(s, Len(s) - Len(t) + 1, Len(s)) = t

\* The position of the last quote character of s.
LastQuote(s) ==
    CHOOSE p \in DOMAIN s : s[p] = "\"" /\ \A i \in (p + 1)..Len(s) : s[i] # "\""

\* C14: robustParseCsvRow returns a list of cells for every line; when a
\* quoted span is left open (the line has an odd number of quote characters)
\* nothing after the last quote character splits the line, and all of it,
\* commas included, is the end of the last cell.
C14_OpenQuoteRunsToEndOfLine ==
    csvCells # Null =>
        /\ Len(csvCells.cells) >= 1
        /\ Count(csvRow, "\"") % 2 = 1 =>
              LET p == LastQuote(csvRow)
                  rest == SubSeq(csvRow, p + 1, Len(csvRow))
                  last == csvCells.cells[Len(csvCells.cells)]
              IN  /\ \A i \in Separators(csvRow) : i < p
                  /\ EndsWith(last, Trim(rest))
                  /\ Count(last, ",") >= Count(rest, ",")

\* C14 witness: the call for a,"b,c has returned: two cells, the last b,c.
C14_Witness ==
    /\ csvRow = Row_OpenQuote
    /\ csvCells # Null
    /\ csvCells.cells = <<<<"a">>, <<"b", ",", "c">>>>

\* s with each of its comma-separated stretches trimmed
CellsTrimmed(s) ==
    join([k \in DOMAIN split(s, ",") |-> Trim(split(s, ",")[k])], ",")

\* no comma of s has white space next to it
NoPaddedComma(s) ==
    \A i \in DOMAIN s :
        s[i] = "," =>
            /\ i > 1 => s[i - 1] \notin WhiteSpace
            /\ i < Len(s) => s[i + 1] \notin WhiteSpace

\* C15 as stated: for a line without quote characters, the cells rejoined
\* with commas are the trimmed line.
C15_Original ==
    (csvCells # Null /\ Count(csvRow, "\"") = 0) =>
        join(csvCells.cells, ",") = Trim(csvRow)

\* C15 amended: for a line without quote characters, the cells rejoined with
\* commas are the line with each cell trimmed; that is the trimmed line when
\* no comma of the line has white space next to it.
C15_RejoinGivesCellsTrimmed ==
    (csvCells # Null /\ Count(csvRow, "\"") = 0) =>
        /\ join(csvCells.cells, ",") = CellsTrimmed(csvRow)
        /\ NoPaddedComma(csvRow) => join(csvCells.cells, ",") = Trim(csvRow)

\* C15 witness: the call for ' a , b ' has returned a / b.
C15_Witness ==
    /\ csvRow = Row_Padded
    /\ csvCells # Null
    /\ join(csvCells.cells, ",") = <<"a", ",", "b">>

\* field wrapped in quotes with its quotes doubled when it holds a comma, a
\* quote or a newline, and as it is otherwise
RECURSIVE Doubled(_, _)
Doubled(field, i) ==
    IF i > Len(field) THEN <<>>
    ELSE IF field[i] = "\"" THEN <<"\"", "\"">> \o Doubled(field, i + 1)
    ELSE <<field[i]>> \o Doubled(field, i + 1)

Escaped(field) ==
    IF Count(field, ",") + Count(field, "\"") + Count(field, "\n") > 0
    THEN <<"\"">> \o Doubled(field, 1) \o <<"\"">>
    ELSE field

\* The six fields of the all-results row of outcome r, before any escaping.
SixFields(r) ==
    <<IF r.data = Null THEN <<>> ELSE r.data.beneficiaryName,
      IF r.data = Null THEN <<>> ELSE r.data.bankName,
      IF r.data = Null THEN <<>> ELSE r.data.accountNumber,
      IF r.data = Null THEN <<>> ELSE r.data.bvn,
      IF r.success THEN S_Success ELSE S_Failed,
      r.message>>

\* the bulk modal is open and the last download was the all-results file
AllResultsDownloaded ==
    /\ isBulkModalOpen
    /\ blob # Null
    /\ blob.name = "all_verification_results.csv"

AllResultsHeader ==
    join(<<S_beneficiaryName, S_bankName, S_accountNumber, S_bvn, S_status, S_message>>, ",")

\* C16: the all-results file has, after its header, one row per outcome of
\* bulkResults with the four record fields, Success or Failed, and the
\* message, and every field of a row that holds a comma, a quote or a newline
\* is wrapped in quotes with its quotes doubled, whichever column it is in.
C16_EveryFieldEscaped ==
    AllResultsDownloaded =>
        blob.content =
            join(<<AllResultsHeader>> \o
                 [k \in DOMAIN bulkResults |->
                     join([c \in 1..6 |-> Escaped(SixFields(bulkResults[k])[c])], ",")],
                 "\n")

\* C17: for every outcome whose message holds a comma, the row of the
\* all-results file holds the message as a quoted field, and robustParseCsvRow
\* applied to the row gives the message back, unchanged, as the message cell.
C17_MessageRoundTrips ==
    AllResultsDownloaded =>
        \A k \in DOMAIN bulkResults :
            Count(bulkResults[k].message, ",") > 0 =>
                LET exported == split(blob.content, "\n")[k + 1]
                    cells == robustParseCsvRow(exported)
                IN  /\ EndsWith(exported,
                           <<",", "\"">> \o Doubled(bulkResults[k].message, 1) \o <<"\"">>)
                    /\ Len(cells) = 6
                    /\ cells[6] = bulkResults[k].message

\* The rows that the successful-only file owes to the outcomes from k on.
RECURSIVE OwedRows(_, _)
OwedRows(results, k) ==
    IF k > Len(results) THEN <<>>
    ELSE (IF results[k].success /\ results[k].data # Null
          THEN <<results[k].data.beneficiaryName \o <<",">> \o results[k].data.bankName
                    \o <<",">> \o results[k].data.accountNumber
                    \o <<",">> \o results[k].data.bvn>>
          ELSE <<>>)
             \o OwedRows(results, k + 1)

\* the bulk modal is open and the last download was the successful-only file
SuccessfulDownloaded ==
    /\ isBulkModalOpen
    /\ blob # Null
    /\ blob.name = "successful_verifications.csv"

\* C18: the successful-only file is the header row
\* beneficiaryName,bankName,accountNumber,bvn followed by one row per outcome
\* of bulkResults that has success true and a record, in bulkResults order,
\* the record's four values joined by commas without quoting; the other
\* outcomes give no row.
C18_SuccessfulOnlyExport ==
    SuccessfulDownloaded =>
        /\ OwedRows(bulkResults, 1) # <<>>
        /\ split(blob.content, "\n") = <<HeaderPlain>> \o OwedRows(bulkResults, 1)

\* C18 witness: the file was written for two outcomes of which the second
\* alone has success true and a record, one with a comma in it.
C18_Witness ==
    /\ SuccessfulDownloaded
    /\ Len(bulkResults) = 2
    /\ ~bulkResults[1].success /\ bulkResults[1].data # Null
    /\ bulkResults[2].success /\ bulkResults[2].data = Record_comma

\* The pairs the duplicate error shown names.
NamedPairs ==
    {<<verificationResult.message.entries[i].acc, verificationResult.message.entries[i].bank>> :
        i \in DOMAIN verificationResult.message.entries}

\* C19: the duplicate error names every (account number, bank name) pair that
\* more than one accepted record has, each with its full account number and
\* its full bank name (as compared: trimmed and lower-cased), once, and no
\* other pair.
C19_DuplicateErrorNamesFullPairs ==
    \A t \in BulkTasks :
        (tasks[t].pc = "rejected" /\ ShowsFailure(DuplicateKind)) =>
            LET rows == RowsOf(tasks[t].text)
            IN  /\ NamedPairs = RepeatedPairs(rows)
                /\ Len(verificationResult.message.entries) = Cardinality(RepeatedPairs(rows))

\* C20: a duplicate error is reported only when two accepted records agree on
\* the trimmed, lower-cased account number and on the trimmed, lower-cased
\* bank name, whatever characters the values hold.
C20_DuplicateErrorOnlyForEqualPairs ==
    \A t \in BulkTasks :
        (tasks[t].pc = "rejected" /\ ShowsFailure(DuplicateKind)) =>
            RepeatedPairs(RowsOf(tasks[t].text)) # {}


\* every data row of the file has the header's cell count and only empty cells
OnlyBlankRows(rows) ==
    \A p \in DataRows(rows) : Len(rows[p]) = Len(rows[1]) /\ AllEmpty(rows[p])

\* C21: an upload that enters the verification phase has at least one record
\* in its batch, and a file whose data rows are all dropped as blank never
\* leads to the bulk-results modal being opened with an empty results list.
C21_EnteredBatchHasARecord ==
    \A t \in BulkTasks :
        Parsed(t) =>
            LET rows == RowsOf(tasks[t].text)
            IN  /\ Entered(t) => tasks[t].accounts # <<>>
                /\ (HeaderOk(rows) /\ OnlyBlankRows(rows)) =>
                      ~(isBulkModalOpen /\ bulkResults = <<>>)


\* list holds the built-in banks, each once, in the order of their names
IsSortedFallback(list) ==
    /\ Len(list) = Len(fallbackBanks)
    /\ {list[i] : i \in DOMAIN list} = {fallbackBanks[i] : i \in DOMAIN fallbackBanks}
    /\ \A i, j \in DOMAIN list : i < j => ~LocaleBefore(list[j].name, list[i].name)

\* The fetchBankData runs whose request failed or was answered with something
\* else than an array of {name, sortCode} strings.
FailedFetches ==
    {f \in DOMAIN fetches :
        fetches[f].reply # Null /\ ~ExpectedFormat(fetches[f].reply)}

\* a run whose request was answered has resolved, and with the fallback list
\* when the answer was a failure
FallbackResolved ==
    \A f \in DOMAIN fetches :
        /\ fetches[f].reply # Null => fetches[f].pc \in {"timer", "done"}
        /\ f \in FailedFetches => IsSortedFallback(fetches[f].banks)

\* the step in which a request fails stores the list it resolves with
FallbackStored ==
    \A f \in DOMAIN fetches :
        (fetches[f].reply = Null /\ fetches'[f].reply # Null
            /\ ~ExpectedFormat(fetches'[f].reply)) =>
                cachedBankData' = Cached(fetches'[f].banks)

\* a call made after a request has failed sends no request
LaterCallSendsNothing ==
    (FailedFetches # {} /\ Len(fetches') > Len(fetches)) =>
        /\ fetches'[Len(fetches')].pc # "requesting"
        /\ bankRequests' = bankRequests

\* a call made after a request has failed returns the fallback list
LaterCallGetsFallback ==
    (FailedFetches # {} /\ Len(fetches') > Len(fetches)) =>
        IsSortedFallback(fetches'[Len(fetches')].banks)

\* C23: fetchBankData never rejects: when its request fails or the answer is
\* not an array of {name, sortCode} strings it resolves with the built-in
\* list sorted by name and stores that list in the cache, and every later
\* call returns that list without another external request.
C23_FailedFetchFallsBackForGood ==
    /\ []FallbackResolved
    /\ [][FallbackStored]_vars
    /\ [][LaterCallSendsNothing]_vars
    /\ [][LaterCallGetsFallback]_vars

\* What of C23 holds: all of it but the list that later calls return.
FailedFetchFallsBack ==
    /\ []FallbackResolved
    /\ [][FallbackStored]_vars
    /\ [][LaterCallSendsNothing]_vars


\* batch t has started and has not finished
BatchRunning(t) == t \in BulkTasks /\ tasks[t].pc = "awaiting"

\* batch t has just finished: its outcomes are shown in the bulk-results modal
BatchFinished(t) ==
    /\ t \in BulkTasks /\ tasks[t].pc = "done"
    /\ bulkResults = tasks[t].results
    /\ Len(bulkResults) = Len(tasks[t].accounts)
    /\ ~isBulkVerifying
    /\ isBulkModalOpen

\* a batch that has started finishes, and isBulkVerifying does not stay true
BatchEventuallyFinishes ==
    /\ \A t \in 1..MaxTasks : BatchRunning(t) ~> BatchFinished(t)
    /\ []<>(~isBulkVerifying)

\* isBulkVerifying is true as long as a batch runs
VerifyingWhileBatchRuns == \A t \in BulkTasks : BatchRunning(t) => isBulkVerifying

\* C22: every call being answered, a batch that has started finishes with
\* bulkResults set to its outcomes, isBulkVerifying false and the bulk-results
\* modal open; isBulkVerifying is true from the start of the batch until then
\* and does not stay true forever.
C22_StartedBatchRunsToItsEnd ==
    /\ BatchEventuallyFinishes
    /\ []VerifyingWhileBatchRuns


\* the single verification t awaits its call
SingleRunning(t) == t \in SingleTasks /\ tasks[t].pc = "awaiting"

\* What the result modal owes the single verification t once its call got
\* its answer: the answer, or a failure with the submitted details.
OwedResult(t) ==
    IF Rejects(tasks[t].replies[1])
    THEN [success |-> FALSE, message |-> Unavailable, data |-> tasks[t].accounts[1]]
    ELSE tasks[t].replies[1].body

\* the single verification t has just ended
SingleEnded(t) ==
    /\ t \in SingleTasks /\ tasks[t].pc = "done"
    /\ ~isVerifying
    /\ isModalOpen
    /\ verificationResult # Null
    /\ verificationResult = OwedResult(t)

\* C24: every single verification that has started ends, its call resolved
\* or rejected, with isVerifying false, the result modal open and a result
\* that is not null: on rejection a failure with the submitted details and
\* the error's message; and while the modal is open and isVerifying is false
\* verificationResult is not null.
C24_SingleVerificationEndsWithResult ==
    /\ \A t \in 1..MaxTasks : SingleRunning(t) ~> SingleEnded(t)
    /\ []((isModalOpen /\ ~isVerifying) => verificationResult # Null)

\* C24 witness: a single verification whose call was rejected has ended and
\* the modal shows the failure with the submitted details.
C24_Witness ==
    \E t \in SingleTasks :
        /\ tasks[t].pc = "done" /\ Rejects(tasks[t].replies[1])
        /\ isModalOpen /\ ~isVerifying
        /\ verificationResult # Null
        /\ verificationResult.success = FALSE
        /\ verificationResult.data = tasks[t].accounts[1]
        /\ verificationResult.message = Unavailable


\* The Successful count that BulkResultsDisplay shows.
DisplayedSuccessful == Cardinality({k \in DOMAIN bulkResults : bulkResults[k].success})

\* the "Download Successful Results" button is shown and enabled
DownloadSuccessfulEnabled == isBulkModalOpen /\ DisplayedSuccessful > 0

\* C25: whenever the "Download Successful Results" button is enabled, a click
\* on it produces a file (seen where no file was downloaded before), and the
\* file it produces has as many data rows as the Successful count shown.
C25_FileHasOneRowPerCountedSuccess ==
    /\ (DownloadSuccessfulEnabled /\ blob = Null) =>
          ENABLED <<handleDownloadResults>>_vars
    /\ SuccessfulDownloaded =>
          Len(split(blob.content, "\n")) - 1 = DisplayedSuccessful

\* What of C25 holds: the file has one data row per outcome that has success
\* true and a record, and a click produces it when there is such an outcome.
FileHasOneRowPerSuccessWithRecord ==
    LET owed == {k \in DOMAIN bulkResults :
                    bulkResults[k].success /\ bulkResults[k].data # Null}
    IN  /\ (isBulkModalOpen /\ owed # {} /\ blob = Null) =>
              ENABLED <<handleDownloadResults>>_vars
        /\ (isBulkModalOpen /\ owed = {}) => ~ENABLED <<handleDownloadResults>>_vars
        /\ SuccessfulDownloaded =>
              Len(split(blob.content, "\n")) - 1 = Cardinality(owed)

====
